---- MODULE Spec2Model ----
(***************************************************************************)
(* Model of computeInMasterFrame (3p/3p.js): a family of frames shares one *)
(* master window; the master window carries the task table                 *)
(* __ampMasterTasks, keyed by taskId.  An entry is either the array of      *)
(* waiting callbacks or, after a completion ran to its end, a stub object  *)
(* whose push() calls the callback at once with the stored result.         *)
(*                                                                         *)
(* One action is one turn of the (single-threaded) event loop: a whole     *)
(* computeInMasterFrame call, or a whole invocation of a completion        *)
(* function handed to work, with every callback run inside it.             *)
(*                                                                         *)
(* validateSrcPrefix (same file) is a pure function; SpecV draws its       *)
(* arguments from bounded sets and applies it once.                        *)
(***************************************************************************)
EXTENDS Integers, Sequences, FiniteSets

VARIABLES
  hasTasks,   \* master.__ampMasterTasks exists
  entry,      \* per taskId: "none" | "array" | "stub"  (what tasks[taskId] is)
  arr,        \* per taskId: the callback array created at line 195 (kept alive by closures)
  stored,     \* per taskId: the result closed over by the stub's push
  cbInfo,     \* every cb ever passed to computeInMasterFrame, in call order
  log,        \* every callback invocation, in order: [cb, res, fan]
  works,      \* every invocation of a work function, in order: [task, capt, status, by]
  threw,      \* the last turn ended with an uncaught exception
  vprefix,    \* validateSrcPrefix: the prefix argument
  vsrc,       \* validateSrcPrefix: the src argument
  vresult     \* validateSrcPrefix: "none" (not called yet) | "returned" | "threw"

vars == <<hasTasks, entry, arr, stored, cbInfo, log, works, threw,
          vprefix, vsrc, vresult>>

\* ---- bounds of the model ------------------------------------------------
MaxCalls == 3                       \* callbacks created in one behaviour
MaxOdd == 2                         \* callbacks among them that throw or re-enter
MaxWorks == 2                       \* invocations of a work function
MaxPrefixes == 2                    \* length of a prefix list given to validateSrcPrefix

\* ---- the inputs -----------------------------------------------------------
Contexts  == {"master", "frame1", "frame2"}
TaskIds   == {"t1", "t2"}
Results   == {"r1", "r2"}
NoResult  == "none"
\* what a callback does when invoked: return, throw, or call
\* computeInMasterFrame again (same taskId) from a non-master frame
Kinds     == {"ok", "throw", "reenter"}
\* what a work function does: complete later, complete inside the call, throw
WorkModes == {"async", "sync", "throwing"}

\* global.context.isMaster (line 198)
IsMasterAll(c) == TRUE
IsMaster(c) == c = "master"

\* the program state as one value, threaded through the code below
State ==
  [hasTasks |-> hasTasks, entry |-> entry, arr |-> arr, stored |-> stored,
   cbInfo |-> cbInfo, log |-> log, works |-> works, exc |-> FALSE]

\* lines 189-192: let tasks = master.__ampMasterTasks; create if absent
GetTasksReset(s) ==
  [s EXCEPT !.hasTasks = TRUE,
            !.entry = [t \in TaskIds |-> "none"],
            !.arr = [t \in TaskIds |-> <<>>],
            !.stored = [t \in TaskIds |-> NoResult]]
GetTasks(s) == [s EXCEPT !.hasTasks = TRUE]

\* lines 193-196: let cbs = tasks[taskId]; create the array if absent
GetEntry(s, t) ==
  IF s.entry[t] = "none"
    THEN [s EXCEPT !.entry[t] = "array", !.arr[t] = <<>>]
    ELSE s

\* a callback body that returns normally: only the invocation is recorded
Record(s, cb, r, fan) ==
  [s EXCEPT !.log = Append(@, [cb |-> cb, res |-> r, fan |-> fan])]

\* push on the array (line 197, Array.prototype.push)
ArrayPushFront(s, t, cb) == [s EXCEPT !.arr[t] = <<cb>> \o @]
ArrayPush(s, t, cb) == [s EXCEPT !.arr[t] = Append(@, cb)]

\* push on the stub (lines 206-208): cb(result); the cb here returns normally
StubPushOk(s, t, cb) == Record(s, cb, s.stored[t], 0)

\* the computeInMasterFrame call made from inside a callback by a non-master
\* frame, with a callback that returns normally (lines 188-200)
NestedCall(s, c, t) ==
  LET cb == Len(s.cbInfo) + 1
      s1 == GetEntry(GetTasks(s), t)
      s2 == [s1 EXCEPT !.cbInfo =
               Append(@, [task |-> t, ctx |-> c, kind |-> "ok", nested |-> TRUE])]
  IN  IF s2.entry[t] = "array" THEN ArrayPush(s2, t, cb) ELSE StubPushOk(s2, t, cb)

\* cbs[i].call(null, result) / cb(result): run callback cb with result r
Invoke(s, cb, r, fan) ==
  LET s1 == Record(s, cb, r, fan)
      k  == s.cbInfo[cb].kind
  IN  CASE k = "ok"      -> s1
        [] k = "throw"   -> [s1 EXCEPT !.exc = TRUE]
        [] k = "reenter" -> NestedCall(s1, "frame1", s.cbInfo[cb].task)

\* cbs.push(cb), line 197: cbs is the array or the stub
Push(s, t, cb) ==
  IF s.entry[t] = "array" THEN ArrayPush(s, t, cb)
  ELSE Invoke(s, cb, s.stored[t], 0)

\* lines 202-204: for (let i = 0; i < cbs.length; i++) cbs[i].call(null, result)
\* cbs.length is read again on every iteration; an exception leaves the loop
RECURSIVE FanOutBack(_, _, _, _, _)
FanOutBack(s, t, r, i, fan) ==
  IF s.exc \/ i > Len(s.arr[t]) THEN s
  ELSE FanOutBack(Invoke(s, s.arr[t][Len(s.arr[t]) - i + 1], r, fan), t, r, i + 1, fan)
RECURSIVE FanOutFrom(_, _, _, _, _)
FanOutFrom(s, t, r, i, fan) ==
  IF s.exc \/ i > Len(s.arr[t]) THEN s
  ELSE FanOutFrom(Invoke(s, s.arr[t][i], r, fan), t, r, i + 1, fan)

\* lines 205-209: tasks[taskId] = {push: cb => cb(result)}
ResolveAll(s, t, r) ==
  [s EXCEPT !.entry = [u \in TaskIds |-> "stub"],
            !.stored = [u \in TaskIds |-> r]]
Resolve(s, t, r) == [s EXCEPT !.entry[t] = "stub", !.stored[t] = r]

\* lines 201-210: the completion function handed to work.  capt is what the
\* closure's cbs refers to: the array, or the stub (whose length is undefined,
\* so that the loop body never runs)
Completion(s, t, capt, r, w) ==
  LET s1 == IF capt = "array" THEN FanOutFrom(s, t, r, 1, w) ELSE s
      s2 == [s1 EXCEPT !.works[w].status = "done"]
  IN  IF s2.exc THEN s2 ELSE Resolve(s2, t, r)

\* line 201: work(result => ...)
Work(s, c, t, capt, mode, r) ==
  LET w  == Len(s.works) + 1
      s1 == [s EXCEPT !.works =
               Append(@, [task |-> t, capt |-> capt, status |-> "pending", by |-> c])]
  IN  CASE mode = "async"    -> s1
        [] mode = "sync"     -> Completion(s1, t, capt, r, w)
        [] mode = "throwing" -> [s1 EXCEPT !.works[w].status = "failed", !.exc = TRUE]

\* lines 187-211
ComputeInMasterFrame(s, c, t, k, mode, r) ==
  LET cb   == Len(s.cbInfo) + 1
      s1   == GetEntry(GetTasks(s), t)
      capt == s1.entry[t]
      s2   == [s1 EXCEPT !.cbInfo =
                 Append(@, [task |-> t, ctx |-> c, kind |-> k, nested |-> FALSE])]
      s3   == Push(s2, t, cb)
  IN  IF s3.exc THEN s3
      ELSE IF ~IsMaster(c) THEN s3
      ELSE Work(s3, c, t, capt, mode, r)

\* ---- the state machine --------------------------------------------------
\* validateSrcPrefix is not part of the coordination runs
NoValidation == [isArray |-> FALSE, val |-> <<>>]
NoSrc == [defined |-> FALSE, str |-> <<>>]

CoordInit ==
  /\ hasTasks = FALSE
  /\ entry = [t \in TaskIds |-> "none"]
  /\ arr = [t \in TaskIds |-> <<>>]
  /\ stored = [t \in TaskIds |-> NoResult]
  /\ cbInfo = <<>>
  /\ log = <<>>
  /\ works = <<>>
  /\ threw = FALSE

Init ==
  /\ CoordInit
  /\ vprefix = NoValidation
  /\ vsrc = NoSrc
  /\ vresult = "none"

Install(s) ==
  /\ Len(s.cbInfo) <= MaxCalls
  /\ Len(s.works) <= MaxWorks
  /\ Cardinality({cb \in 1..Len(s.cbInfo) : s.cbInfo[cb].kind # "ok"}) <= MaxOdd
  /\ hasTasks' = s.hasTasks
  /\ entry' = s.entry
  /\ arr' = s.arr
  /\ stored' = s.stored
  /\ cbInfo' = s.cbInfo
  /\ log' = s.log
  /\ works' = s.works
  /\ threw' = s.exc
  /\ UNCHANGED <<vprefix, vsrc, vresult>>

\* a frame that is not the master calls computeInMasterFrame
CallFrame ==
  \E c \in Contexts, t \in TaskIds, k \in Kinds :
    /\ ~(c = "master")
    /\ Len(cbInfo) < MaxCalls
    /\ Install(ComputeInMasterFrame(State, c, t, k, "async", "r1"))

\* the master frame calls computeInMasterFrame
CallMaster ==
  \E t \in TaskIds, k \in Kinds, mode \in WorkModes, r \in Results :
    /\ Len(cbInfo) < MaxCalls
    /\ mode # "sync" => r = "r1"
    /\ Install(ComputeInMasterFrame(State, "master", t, k, mode, r))

\* an asynchronous work function calls its completion function
Complete ==
  \E w \in 1..Len(works), r \in Results :
    /\ works[w].status = "pending"
    /\ Install(Completion(State, works[w].task, works[w].capt, r, w))

Next == CallFrame \/ CallMaster \/ Complete

Spec == Init /\ [][Next]_vars

\* ---- validateSrcPrefix (lines 125-143) ------------------------------------
\* strings are sequences of characters; a value is a string or undefined
Str(seq) == [defined |-> TRUE, str |-> seq]
Undefined == [defined |-> FALSE, str |-> <<>>]
\* the text JavaScript gives to the value undefined where a string is needed
UndefinedText == <<"u", "n", "d", "e", "f", "i", "n", "e", "d">>

PrefixStrings == {<<"a">>, <<"a", "b">>, <<"b">>}
SrcValues ==
  {Undefined} \cup
  {Str(q) : q \in {<<>>, <<"a">>, <<"b">>, <<"a", "b">>, <<"b", "a">>, <<"a", "a">>,
                   UndefinedText, UndefinedText \o <<"a">>,
                   <<"a">> \o UndefinedText,
                   <<"u", "n", "d", "e", "f", "i", "n", "e">>}}
\* the prefix argument: one string, or an array of strings
PrefixInputs ==
  {[isArray |-> FALSE, val |-> q] : q \in PrefixStrings} \cup
  {[isArray |-> TRUE, val |-> l] :
     l \in UNION {[1..k -> PrefixStrings] : k \in 0..MaxPrefixes}}

\* lines 131-133: if (!isArray(prefix)) prefix = [prefix]
AsList(prefix) == IF prefix.isArray THEN prefix.val ELSE <<prefix.val>>

\* prefix[p], p counted from 0: undefined at and past the end of the array
ElementAt(list, p) == IF p < Len(list) THEN Str(list[p + 1]) ELSE Undefined

\* String.prototype.indexOf converts its argument to a string first
SearchString(v) == IF v.defined THEN v.str ELSE UndefinedText

\* str.indexOf(pat): the first position (from 0) where pat occurs, else -1
IndexOf(str, pat) ==
  LET hits == {i \in 0..(Len(str) - Len(pat)) : SubSeq(str, i + 1, i + Len(pat)) = pat}
  IN  IF hits = {} THEN -1 ELSE CHOOSE i \in hits : \A j \in hits : i <= j

\* lines 135-140: for (let p = 0; p <= prefix.length; p++) ...
RECURSIVE PrefixLoop(_, _, _)
PrefixLoop(list, str, p) ==
  IF p > Len(list) THEN "threw"
  ELSE IF IndexOf(str, SearchString(ElementAt(list, p))) = 0 THEN "returned"
  ELSE PrefixLoop(list, str, p + 1)

\* lines 130-143
ValidateSrcPrefix(prefix, src) ==
  IF src.defined THEN PrefixLoop(AsList(prefix), src.str, 0) ELSE "threw"

InitV ==
  /\ CoordInit
  /\ vprefix \in PrefixInputs
  /\ vsrc \in SrcValues
  /\ vresult = "none"

\* validateSrcPrefix(vprefix, vsrc) is called
Validate ==
  /\ vresult = "none"
  /\ vresult' = ValidateSrcPrefix(vprefix, vsrc)
  /\ UNCHANGED <<hasTasks, entry, arr, stored, cbInfo, log, works, threw, vprefix, vsrc>>

NextV == Validate

SpecV == InitV /\ [][NextV]_vars

\* ---- vocabulary of the properties -----------------------------------------
Callbacks == 1..Len(cbInfo)
Registered(t) == {cb \in Callbacks : cbInfo[cb].task = t}
Invocations(cb) == Cardinality({i \in 1..Len(log) : log[i].cb = cb})
WorkCount(t) == Cardinality({w \in 1..Len(works) : works[w].task = t})
CallsBy(c, t) ==
  Cardinality({cb \in Callbacks : cbInfo[cb].task = t /\ cbInfo[cb].ctx = c})
Completed(t) == \E w \in 1..Len(works) : works[w].task = t /\ works[w].status = "done"
\* the callbacks invoked by the fan-out of completion w, in invocation order
FanSeq(w) == SelectSeq(log, LAMBDA e : e.fan = w)
\* this step is a top-level computeInMasterFrame call by context c for task t
IsCall(c, t) ==
  /\ Len(cbInfo') > Len(cbInfo)
  /\ ~cbInfo'[Len(cbInfo) + 1].nested
  /\ cbInfo'[Len(cbInfo) + 1].task = t
  /\ cbInfo'[Len(cbInfo) + 1].ctx = c
\* completion w is invoked in this step
IsCompletion(w) ==
  /\ w \in 1..Len(works')
  /\ works'[w].status = "done"
  /\ w \in 1..Len(works) => works[w].status = "pending"

\* C1: for every taskId the work function has been invoked at most once,
\* however often any context (the master included) calls computeInMasterFrame.
C1_WorkAtMostOnce == \A t \in TaskIds : WorkCount(t) <= 1

\* C2: no callback is delivered twice: every callback passed to
\* computeInMasterFrame has been invoked at most once.
C2_NoCallbackTwice == \A cb \in Callbacks : Invocations(cb) <= 1

\* C3: eventual delivery: once a completion function of a taskId has been
\* invoked, every callback registered for that taskId (before, during or
\* after) has been invoked; delivery is synchronous, so "eventually" is "by
\* the end of the turn" of the completion or of the late registration.
C3_AllDelivered ==
  \A t \in TaskIds :
    Completed(t) => \A cb \in Registered(t) : Invocations(cb) >= 1

\* C4: all callback invocations for one taskId carry the identical result.
C4_SameResult ==
  \A i, j \in 1..Len(log) :
    cbInfo[log[i].cb].task = cbInfo[log[j].cb].task => log[i].res = log[j].res

\* C5: late registration: a computeInMasterFrame call by any context for a
\* taskId whose entry is already Resolved invokes the new callback within the
\* call, with the stored result, and does not invoke the work function again.
C5_LateRegistration ==
  [][\A c \in Contexts, t \in TaskIds :
       (entry[t] = "stub" /\ IsCall(c, t)) =>
         /\ \E i \in (Len(log) + 1)..Len(log') :
              log'[i].cb = Len(cbInfo) + 1 /\ log'[i].res = stored[t]
         /\ WorkCount(t)' = WorkCount(t)]_vars

\* C6: order preservation: the queue of a taskId holds the callbacks in call
\* order, and every fan-out invokes the queued callbacks in that order, from
\* the first one on.
C6_OrderPreserved ==
  /\ \A t \in TaskIds : \A i, j \in 1..Len(arr[t]) : i < j => arr[t][i] < arr[t][j]
  /\ \A w \in 1..Len(works) :
       /\ Len(FanSeq(w)) <= Len(arr[works[w].task])
       /\ \A i \in 1..Len(FanSeq(w)) : FanSeq(w)[i].cb = arr[works[w].task][i]

C6_Witness ==
  \E w \in 1..Len(works) :
    /\ works[w].status = "done"
    /\ Len(FanSeq(w)) = 3
    /\ \A i \in 1..3 : ~cbInfo[FanSeq(w)[i].cb].nested
    /\ cbInfo[FanSeq(w)[1].cb].ctx # cbInfo[FanSeq(w)[2].cb].ctx
    /\ cbInfo[FanSeq(w)[2].cb].ctx # cbInfo[FanSeq(w)[3].cb].ctx

\* C7: isolation under callback failure: when a completion function fans out
\* over the queue, every queued callback is invoked with the result, also the
\* ones queued behind a callback that throws.
C7_Isolation ==
  [][\A w \in 1..Len(works') :
       (IsCompletion(w) /\ works'[w].capt = "array") =>
         \A i \in 1..Len(arr'[works'[w].task]) :
           \E j \in 1..Len(log') :
             log'[j].cb = arr'[works'[w].task][i] /\ log'[j].fan = w]_vars

\* C8: resolution is permanent: once the entry of a taskId is Resolved with
\* result v it stays Resolved with v.
C8_ResolvedForever ==
  [][\A t \in TaskIds :
       entry[t] = "stub" => (entry'[t] = "stub" /\ stored'[t] = stored[t])]_vars

\* C9: when every context of the family (one of them the master) has called
\* computeInMasterFrame once for a taskId, the work function of that taskId
\* has been invoked exactly once, whenever its completion arrives.
C9_ExactlyOnceWork ==
  \A t \in TaskIds :
    (\A c \in Contexts : CallsBy(c, t) = 1) => WorkCount(t) = 1

C9_Witness ==
  /\ \A c \in Contexts : CallsBy(c, "t1") = 1
  /\ \A cb \in Callbacks : ~cbInfo[cb].nested
  /\ Completed("t1")
  /\ \A cb \in Registered("t1") : Invocations(cb) = 1

\* C10 as stated: a computeInMasterFrame call by a non-master context leaves
\* the registry (its existence, its entries, their queues and results) alone.
C10_FrameNeverWrites ==
  [][\A c \in Contexts, t \in TaskIds :
       (~(c = "master") /\ IsCall(c, t)) =>
         /\ hasTasks' = hasTasks
         /\ entry' = entry
         /\ arr' = arr
         /\ stored' = stored]_vars

\* C10 amended: a computeInMasterFrame call by a non-master context never
\* invokes work, never resolves an entry and never changes a stored result;
\* all it writes is the registry and the Pending entry of its taskId when
\* absent, and its own callback at the end of that Pending entry's queue.
C10_FrameWritesOnlyItsCallback ==
  [][\A c \in Contexts, t \in TaskIds :
       (~(c = "master") /\ IsCall(c, t)) =>
         /\ works' = works
         /\ stored' = stored
         /\ hasTasks'
         /\ \A u \in TaskIds \ {t} : entry'[u] = entry[u] /\ arr'[u] = arr[u]
         /\ entry'[t] = (IF entry[t] = "none" THEN "array" ELSE entry[t])
         /\ arr'[t] = (IF entry[t] = "stub" THEN arr[t]
                       ELSE Append(arr[t], Len(cbInfo) + 1))]_vars

C10_Witness ==
  /\ Len(cbInfo) = 2
  /\ cbInfo[1].ctx = "frame1" /\ cbInfo[2].ctx = "frame2"
  /\ cbInfo[1].task = "t1" /\ cbInfo[2].task = "t1"
  /\ hasTasks
  /\ entry["t1"] = "array"
  /\ arr["t1"] = <<1, 2>>
  /\ works = <<>>

\* the same counts over a given (next-state) registration list and log
RegisteredIn(ci, t) == {cb \in 1..Len(ci) : ci[cb].task = t}
InvocationsIn(lg, cb) == Cardinality({i \in 1..Len(lg) : lg[i].cb = cb})
AllDeliveredNext(t) ==
  \A cb \in RegisteredIn(cbInfo', t) : InvocationsIn(log', cb) >= 1

\* C11: no delivery without the master: as long as the master has not called
\* computeInMasterFrame for a taskId no callback of that taskId has been
\* invoked and the entry is not Resolved; and no callback has been invoked
\* unless a completion function of its taskId has been invoked.
C11_NoDeliveryWithoutMaster ==
  /\ \A t \in TaskIds :
       CallsBy("master", t) = 0 =>
         /\ \A cb \in Registered(t) : Invocations(cb) = 0
         /\ entry[t] # "stub"
  /\ \A i \in 1..Len(log) : Completed(cbInfo[log[i].cb].task)

C11_Witness ==
  /\ CallsBy("master", "t1") = 0
  /\ Cardinality(Registered("t1")) = 2
  /\ entry["t1"] = "array"
  /\ Len(arr["t1"]) = 2
  /\ Completed("t2")
  /\ \E i \in 1..Len(log) : cbInfo[log[i].cb].task = "t2"

\* C12: fan-out is synchronous and complete: at the end of the turn in which
\* a completion function is invoked the entry is Resolved and every callback
\* registered for the taskId has been invoked; and in no state between turns
\* is an entry Resolved while a registered callback is still undelivered.
C12_FanOutComplete ==
  [][/\ \A t \in TaskIds :
          entry'[t] = "stub" => AllDeliveredNext(t)
     /\ \A w \in 1..Len(works') :
          IsCompletion(w) =>
            /\ entry'[works'[w].task] = "stub"
            /\ AllDeliveredNext(works'[w].task)]_vars

\* C13: a callback that throws during fan-out does not poison the entry: once
\* a completion function of a taskId has been invoked the entry is Resolved,
\* whether or not a callback threw.
C13_NotPoisoned ==
  \A t \in TaskIds : Completed(t) => entry[t] = "stub"

\* this step is a computeInMasterFrame call for task t in which work was
\* invoked and threw synchronously
IsWorkThrow(t) ==
  /\ Len(works') = Len(works) + 1
  /\ works'[Len(works')].status = "failed"
  /\ works'[Len(works')].task = t

\* C14: when work throws synchronously inside the master's call the exception
\* leaves the call uncaught, no callback is invoked, and the entry is left
\* Pending with every callback registered so far, the master's own included,
\* still queued.
C14_WorkThrowLeavesPending ==
  [][\A t \in TaskIds :
       IsWorkThrow(t) =>
         /\ threw'
         /\ log' = log
         /\ entry'[t] = "array"
         /\ \A cb \in RegisteredIn(cbInfo', t) :
              \E i \in 1..Len(arr'[t]) : arr'[t][i] = cb]_vars

\* C15: only the master performs work: a call by a non-master context queues
\* its callback (or, on a Resolved entry, has it invoked) and invokes no work
\* function; every work invocation was made by the master, so that the work
\* of one taskId is invoked by at most one context.
C15_OnlyMasterWorks ==
  [][/\ \A c \in Contexts, t \in TaskIds :
          (~(c = "master") /\ IsCall(c, t)) =>
            /\ works' = works
            /\ entry[t] # "stub" =>
                 arr'[t][Len(arr'[t])] = Len(cbInfo) + 1
            /\ entry[t] = "stub" => InvocationsIn(log', Len(cbInfo) + 1) = 1
     /\ \A w \in 1..Len(works') : works'[w].by = "master"
     /\ \A v, w \in 1..Len(works') :
          works'[v].task = works'[w].task => works'[v].by = works'[w].by]_vars

C15_Witness ==
  /\ Len(works) = 1
  /\ works[1].task = "t1" /\ works[1].by = "master"
  /\ CallsBy("frame1", "t1") = 1
  /\ CallsBy("frame2", "t1") = 1
  /\ CallsBy("master", "t1") = 1
  /\ cbInfo[3].ctx # "master"
  /\ \A cb \in Callbacks : ~cbInfo[cb].nested

\* the other taskIds' entries are what they were before this step
OthersKept(t) ==
  \A u \in TaskIds \ {t} :
    entry'[u] = entry[u] /\ arr'[u] = arr[u] /\ stored'[u] = stored[u]

\* C16 as stated: the first call for a taskId, by any context, creates the
\* registry if absent and leaves the entry Pending with exactly that one
\* callback queued; the entries of other taskIds are kept.
C16_LazyCreation ==
  [][\A c \in Contexts, t \in TaskIds :
       (IsCall(c, t) /\ entry[t] = "none") =>
         /\ hasTasks'
         /\ entry'[t] = "array"
         /\ arr'[t] = <<Len(cbInfo) + 1>>
         /\ OthersKept(t)]_vars

\* C16 amended: the first call for a taskId creates the registry if absent
\* and a Pending entry whose queue starts with the call's callback, and keeps
\* the entries of other taskIds; on return the entry is Pending with exactly
\* that one callback queued, unless the caller is the master and its work
\* invoked the completion function inside the call.
C16_LazyCreationUnlessSync ==
  [][\A c \in Contexts, t \in TaskIds :
       (IsCall(c, t) /\ entry[t] = "none") =>
         /\ hasTasks'
         /\ Len(arr'[t]) >= 1 /\ arr'[t][1] = Len(cbInfo) + 1
         /\ OthersKept(t)
         /\ ~(c = "master" /\ \E w \in 1..Len(works') : IsCompletion(w)) =>
              (entry'[t] = "array" /\ arr'[t] = <<Len(cbInfo) + 1>>)]_vars

C16_Witness ==
  /\ Len(cbInfo) = 3
  /\ cbInfo[3].task = "t1" /\ cbInfo[3].ctx = "frame2"
  /\ entry["t1"] = "array" /\ arr["t1"] = <<3>>
  /\ entry["t2"] = "stub" /\ Len(arr["t2"]) = 2

\* this step is a master call for task t whose work invoked the completion
\* function inside the call
IsSyncCompletion(t) ==
  /\ IsCall("master", t)
  /\ Len(works') = Len(works) + 1
  /\ works'[Len(works')].status = "done"
\* callback cb is invoked in this step with result r
DeliveredNow(cb, r) ==
  \E j \in (Len(log) + 1)..Len(log') : log'[j].cb = cb /\ log'[j].res = r

\* C17: synchronous completion is not missed: when work invokes its
\* completion function inside the master's call, the master's own callback
\* and every callback queued earlier are invoked with the result before the
\* call returns, and the entry is Resolved with that result on return.
C17_SyncCompletionDelivered ==
  [][\A t \in TaskIds :
       IsSyncCompletion(t) =>
         /\ entry'[t] = "stub"
         /\ DeliveredNow(Len(cbInfo) + 1, stored'[t])
         /\ entry[t] = "array" =>
              \A i \in 1..Len(arr[t]) : DeliveredNow(arr[t][i], stored'[t])]_vars

\* this step registers a callback for task x or completes the work of x
IsStepOf(x) ==
  \/ \E c \in Contexts : IsCall(c, x)
  \/ \E w \in 1..Len(works') : IsCompletion(w) /\ works'[w].task = x

\* C18: tasks are independent: a step that registers a callback for taskId X
\* or completes the work of X invokes callbacks of X only and leaves the
\* entry of every other taskId (state, queue, stored result) unchanged.
C18_TasksIndependent ==
  [][\A x \in TaskIds :
       IsStepOf(x) =>
         /\ OthersKept(x)
         /\ \A j \in (Len(log) + 1)..Len(log') : cbInfo'[log'[j].cb].task = x]_vars

C18_Witness ==
  /\ entry["t1"] = "stub"
  /\ entry["t2"] = "array"
  /\ arr["t2"] = <<1>>
  /\ Invocations(1) = 0
  /\ \E i \in 1..Len(log) : cbInfo[log[i].cb].task = "t1"

\* callback cb was registered by a call made from inside a callback and was
\* queued, the entry being Pending at that moment
QueuedNested(ci, a, cb) ==
  /\ ci[cb].nested
  /\ \E i \in 1..Len(a[ci[cb].task]) : a[ci[cb].task][i] = cb

\* C19: re-entrant registration during fan-out: a callback registered by a
\* non-master call made from inside a callback of the running fan-out, the
\* entry being still Pending, is invoked exactly once within that fan-out,
\* with the result the fan-out delivers, and is not invoked again later.
C19_ReentrantRegistration ==
  [][/\ \A cb \in (Len(cbInfo) + 1)..Len(cbInfo') :
          QueuedNested(cbInfo', arr', cb) =>
            /\ InvocationsIn(log', cb) = 1
            /\ \E i, j \in (Len(log) + 1)..Len(log') :
                 /\ i < j
                 /\ log'[j].cb = cb
                 /\ cbInfo'[log'[i].cb].kind = "reenter"
                 /\ log'[j].fan = log'[i].fan /\ log'[j].fan # 0
                 /\ log'[j].res = log'[i].res
     /\ \A cb \in 1..Len(cbInfo) :
          QueuedNested(cbInfo, arr, cb) =>
            InvocationsIn(log', cb) = InvocationsIn(log, cb)]_vars

\* str starts with pat
StartsWith(str, pat) ==
  Len(pat) <= Len(str) /\ SubSeq(str, 1, Len(pat)) = pat

\* C20: validateSrcPrefix returns normally exactly when src starts with the
\* prefix (for a list: with at least one of the listed prefixes), and throws
\* otherwise, for every src, an undefined one and one that begins with the
\* text "undefined" included.
C20_ValidateSrcPrefix ==
  vresult # "none" =>
    (vresult = "returned" <=>
       /\ vsrc.defined
       /\ \E i \in 1..Len(AsList(vprefix)) : StartsWith(vsrc.str, AsList(vprefix)[i]))

====
